---- MODULE Spec2Model ----
(***************************************************************************)
(* A model of scrape_deputes_france.py: the retrying fetcher               *)
(* (get_with_retries), the roster walk (get_deputes_from_region), the      *)
(* detail extractor (get_depute_info), the dispatcher and the formatter    *)
(* (scrape_deputes, build_ascii_table).                                    *)
(*                                                                         *)
(* Strings are sequences of atoms.  An atom is a one-character string, or  *)
(* a literal that the program only ever matches as a whole (a URL prefix,  *)
(* a region name).  Where a string is expected, Python's None is the value *)
(* None below, which is no string: every string is a sequence of atoms and *)
(* "None" is not an atom.  An optional value of another type (a response,  *)
(* a returned record) is a sequence of length 0 (None) or 1 (the value).   *)
(***************************************************************************)
EXTENDS Integers, Sequences, FiniteSets, TLC

VARIABLES
    retries,            \* scrape_deputes(retries=...)
    delay,              \* scrape_deputes(delay=...)
    multithreading,     \* scrape_deputes(multithreading=...)
    max_threads,        \* scrape_deputes(max_threads=...)
    fields,             \* scrape_deputes(fields=...), after the default of l.297
    use_table,          \* scrape_deputes(use_table=...)
    barefields,         \* scrape_deputes(barefields=...)
    separator_suppression, \* what the caller asked for; no parameter carries it
    roster,             \* the node tree the server serves at DEPUTES_URL
    site,               \* the detail page the server serves at each URL
    net,                \* the outcomes a GET may have: TRUE = no RequestException
    debug,              \* scrape_deputes(debug=...)
    pc,                 \* the main thread's position in scrape_deputes
    region_idx,         \* loop index of l.302
    lfetch,             \* the get_with_retries call of get_deputes_from_region
    listed,             \* history: what each get_deputes_from_region returned
    deputes_data,       \* l.301
    roster_calls,       \* history: calls of get_with_retries(DEPUTES_URL, ...) so far
    mout,               \* what scrape_deputes and get_deputes_from_region printed
    next,               \* loop index of l.333 / l.340
    st,                 \* per reference: state of its get_depute_info call
    fetch,              \* per reference: its get_with_retries call
    ret,                \* per reference: what get_depute_info returned
    dout,               \* per reference: what its get_depute_info call printed
    started,            \* history: references in the order their call started
    order,              \* history: references in the order of results.append
    results,            \* l.317
    lines,              \* l.353
    ascii_table,        \* l.366
    final_output        \* l.372

config == <<retries, delay, multithreading, max_threads, fields, use_table,
            barefields, separator_suppression, roster, site, net, debug>>
listing == <<region_idx, lfetch, listed, deputes_data, roster_calls, mout>>
dispatch == <<next, st, fetch, ret, dout, started, order, results>>
output == <<lines, ascii_table, final_output>>
vars == <<config, pc, listing, dispatch, output>>

-----------------------------------------------------------------------------
(* Bounds *)

MaxRetries == 2      \* retries ranges over 1..MaxRetries
MaxThreads == 2      \* max_threads ranges over 1..MaxThreads
MaxDeputes == 3      \* entity links on a roster page of a whole run
MaxNodes == 5        \* top-level nodes of a roster tree (roster walk)
MaxElems == 3        \* elements of a detail page (detail extraction)
MaxRecs == 2         \* records handed to the formatter
MaxFields == 2       \* length of a field selection

-----------------------------------------------------------------------------
(* Strings *)

None == <<"None">>
Nothing == <<>>
Some(v) == <<v>>

BASE_URL == <<"https://www.assemblee-nationale.fr">>
DEPUTES_URL == <<"https://www2.assemblee-nationale.fr/deputes/liste/regions">>
TOP_REGIONS == << <<"Ile-de-France">>, <<"Provence-Alpes-Côte d'Azur">> >>

Whitespace == {" ", "\n", "\t"}
Digits == {"0", "1", "2", "3", "4", "5", "6", "7", "8", "9"}

Min(S) == CHOOSE x \in S : \A y \in S : x <= y
Max(S) == CHOOSE x \in S : \A y \in S : x >= y

\* str.strip()
RECURSIVE LStrip(_)
LStrip(s) == IF s # <<>> /\ Head(s) \in Whitespace THEN LStrip(Tail(s)) ELSE s
RECURSIVE RStrip(_)
RStrip(s) ==
    IF s # <<>> /\ s[Len(s)] \in Whitespace
    THEN RStrip(SubSeq(s, 1, Len(s) - 1)) ELSE s
Strip(s) == RStrip(LStrip(s))

\* s[p:].startswith(lit)
PrefixAt(s, p, lit) ==
    /\ p + Len(lit) - 1 <= Len(s)
    /\ \A k \in 1..Len(lit) : s[p + k - 1] = lit[k]
StartsWith(s, lit) == PrefixAt(s, 1, lit)

\* str.replace(old, ""), old not empty: every non-overlapping occurrence, from the left
RECURSIVE Remove(_, _)
Remove(s, old) ==
    IF s = <<>> THEN <<>>
    ELSE IF PrefixAt(s, 1, old) THEN Remove(SubSeq(s, Len(old) + 1, Len(s)), old)
    ELSE <<Head(s)>> \o Remove(Tail(s), old)

\* "sep".join(parts)
RECURSIVE Join(_, _)
Join(sep, parts) ==
    IF parts = <<>> THEN <<>>
    ELSE IF Len(parts) = 1 THEN parts[1]
    ELSE parts[1] \o sep \o Join(sep, Tail(parts))

-----------------------------------------------------------------------------
(* get_with_retries, l.49-77.  A call is a record: pc is "get" before the  *)
(* GET of attempt `attempt`, "sleep" inside time.sleep, "ret" once the     *)
(* function has returned resp.  log lists the GETs and sleeps in order,    *)
(* out the lines the call printed.                                         *)

\* A printed line: its level, its text without the values, and the values
Line(level, text, n, arg) == [level |-> level, text |-> text, n |-> n, arg |-> arg]
\* if debug: print(...)
IfDebug(line) == IF debug THEN <<line>> ELSE <<>>

FetchIdle ==
    [pc |-> "idle", url |-> <<>>, attempt |-> 0, resp |-> Nothing, log |-> <<>>,
     out |-> <<>>]

\* for attempt in range(1, max_retries + 1) ... return None
LoopTo(f, k) ==
    IF k <= retries
    THEN [f EXCEPT !.pc = "get", !.attempt = k]
    ELSE [f EXCEPT !.pc = "ret", !.resp = Nothing]

FetchCall(url) == LoopTo([FetchIdle EXCEPT !.url = url], 1)

\* l.72: whether the except branch sleeps
SleepsAfterAlways(attempt) == TRUE
SleepsAfter(attempt) == attempt < retries /\ delay > 0

\* l.67-69: the GET raised nothing; body = resp.text
ReturnsLater(f, body) == LoopTo([f EXCEPT !.resp = Some(body)], f.attempt + 1)
ReturnsNow(f, body) == [f EXCEPT !.pc = "ret", !.resp = Some(body)]

\* l.67-75: one GET; ok = no RequestException
GetStep(f, ok, body) ==
    LET tried == IfDebug(Line("[DEBUG]", "Attempt n/max_retries fetching: url",
                              f.attempt, f.url))
        failed == <<Line("[ERROR]", "Attempt n failed for url: exc", f.attempt, f.url)>>
        sleeping == IfDebug(Line("[DEBUG]", "Sleeping delay_between s before retrying...",
                                 delay, <<>>))
        g == [f EXCEPT !.log = Append(@, [ev |-> "GET", n |-> f.attempt, ok |-> ok]),
                       !.out = @ \o tried]
        h == [g EXCEPT !.out = @ \o failed]
    IN  IF ok THEN ReturnsNow(g, body)
        ELSE IF SleepsAfter(f.attempt) THEN [h EXCEPT !.pc = "sleep", !.out = @ \o sleeping]
        ELSE LoopTo(h, f.attempt + 1)

\* l.75: time.sleep(delay_between) returns
SleepStep(f) ==
    LoopTo([f EXCEPT !.log = Append(@, [ev |-> "SLEEP", n |-> f.attempt, ok |-> FALSE])],
           f.attempt + 1)

-----------------------------------------------------------------------------
(* The roster tree: the top-level nodes in document order.                 *)
(* A node is [name, text, class, lis]; an li of a <div> is [href, text],   *)
(* the href and text of its first <a href=...>, href = None without one.   *)

FICHE == <<"/deputes/fiche/">>

H2(text) == [name |-> "h2", text |-> text, class |-> <<>>, lis |-> <<>>]
H4(class) == [name |-> "h4", text |-> <<>>, class |-> class, lis |-> <<>>]
Div(lis) == [name |-> "div", text |-> <<>>, class |-> <<>>, lis |-> lis]
Par == [name |-> "p", text |-> <<>>, class |-> <<>>, lis |-> <<>>]
Li(href, text) == [href |-> href, text |-> text]

\* deputes_map[name] = full_url on an insertion-ordered dict
DictKeys(d) == {d[i].name : i \in 1..Len(d)}
DictSet(d, name, url) ==
    IF name \in DictKeys(d)
    THEN [i \in 1..Len(d) |-> IF d[i].name = name THEN [d[i] EXCEPT !.url = url] ELSE d[i]]
    ELSE Append(d, [name |-> name, url |-> url])
DictGet(d, name) == d[CHOOSE i \in 1..Len(d) : d[i].name = name].url

\* l.111-116: the first <h2> whose stripped text is region_name; 0 for None
FindH2Prefix(tree, region_name) ==
    LET hits == {i \in 1..Len(tree) :
                    tree[i].name = "h2" /\ StartsWith(Strip(tree[i].text), region_name)}
    IN  IF hits = {} THEN 0 ELSE Min(hits)
FindH2(tree, region_name) ==
    LET hits == {i \in 1..Len(tree) :
                    tree[i].name = "h2" /\ Strip(tree[i].text) = region_name}
    IN  IF hits = {} THEN 0 ELSE Min(hits)

\* The walk carries acc = [map, hits]: the dict of l.123 and, as history, the
\* positions <<node, li>> whose link was written into it.

\* l.138-144
RECURSIVE ScanLis(_, _, _, _)
ScanLis(tree, k, n, acc) ==
    IF n > Len(tree[k].lis) THEN acc
    ELSE LET a_tag == tree[k].lis[n]
         IN  ScanLis(tree, k, n + 1,
                 IF a_tag.href # None /\ StartsWith(a_tag.href, FICHE)
                 THEN [map |-> DictSet(acc.map, Strip(a_tag.text), BASE_URL \o a_tag.href),
                       hits |-> acc.hits \cup {<<k, n>>}]
                 ELSE acc)

\* l.134: where the scan below a department heading stops
StopsDept(node) == node.name \in {"h4", "h2"}

\* l.133-144
RECURSIVE ScanDept(_, _, _)
ScanDept(tree, k, acc) ==
    IF k > Len(tree) \/ StopsDept(tree[k]) THEN acc
    ELSE ScanDept(tree, k + 1,
             IF tree[k].name = "div" THEN ScanLis(tree, k, 1, acc) ELSE acc)

\* l.128: where the walk of a region's block stops
StopsNever(node) == FALSE
StopsRegion(node) == node.name = "h2"

\* l.126-144
RECURSIVE ScanRegion(_, _, _)
ScanRegion(tree, j, acc) ==
    IF j > Len(tree) \/ StopsRegion(tree[j]) THEN acc
    ELSE ScanRegion(tree, j + 1,
             IF tree[j].name = "h4" /\ tree[j].class = <<"departementTitre">>
             THEN ScanDept(tree, j + 1, acc) ELSE acc)

\* repr(list(deputes_map.keys()))
KeysRepr(d) ==
    <<"[">> \o Join(<<",", " ">>, [i \in 1..Len(d) |-> <<"'">> \o d[i].name \o <<"'">>])
        \o <<"]">>

\* get_deputes_from_region, l.105-148, on the outcome resp of its fetch: the
\* walk, and out, the lines printed on the way
EmptyWalk == [map |-> <<>>, hits |-> {}]
get_deputes_from_region(region_name, resp) ==
    IF resp = Nothing
    THEN [map |-> <<>>, hits |-> {},
          out |-> <<Line("[ERROR]", "Could not fetch region page: url", 0, DEPUTES_URL)>>]
    ELSE LET soup == resp[1]
             region_h2 == FindH2(soup, region_name)
             walk == ScanRegion(soup, region_h2 + 1, EmptyWalk)
         IN  IF region_h2 = 0
             THEN [map |-> <<>>, hits |-> {},
                   out |-> IfDebug(Line("[WARNING]", "No <h2> found for region r.", 0,
                                        region_name))]
             ELSE [map |-> walk.map, hits |-> walk.hits,
                   out |-> IfDebug(Line("[DEBUG]", "Deputies found for r: keys", 0,
                                        region_name \o <<":", " ">> \o KeysRepr(walk.map)))]

\* l.310-311
Items(region_map, region) ==
    [i \in 1..Len(region_map) |->
        [name |-> region_map[i].name, url |-> region_map[i].url, region |-> region]]

-----------------------------------------------------------------------------
(* The server *)

\* resp.text of a successful GET of url
Served(url) ==
    IF url = DEPUTES_URL THEN roster
    ELSE IF url \in DOMAIN site THEN site[url]
    ELSE <<>>

-----------------------------------------------------------------------------
(* Listing phase of scrape_deputes, l.300-311 *)

\* l.303 -> l.98: get_deputes_from_region calls get_with_retries
ListingCallOncePerRun ==
    /\ pc = "listing"
    /\ region_idx <= Len(TOP_REGIONS)
    /\ lfetch.pc = "idle"
    /\ IF roster_calls = 0
       THEN /\ lfetch' = FetchCall(DEPUTES_URL)
            /\ roster_calls' = roster_calls + 1
       ELSE /\ lfetch' = [FetchIdle EXCEPT !.pc = "ret", !.url = DEPUTES_URL,
                                           !.resp = Some(roster)]
            /\ UNCHANGED roster_calls
    /\ mout' = mout \o IfDebug(Line("[DEBUG]", "Collecting deputies for region: r", 0,
                                    TOP_REGIONS[region_idx]))
    /\ UNCHANGED <<config, pc, region_idx, listed, deputes_data, dispatch, output>>
ListingCall ==
    /\ pc = "listing"
    /\ region_idx <= Len(TOP_REGIONS)
    /\ lfetch.pc = "idle"
    /\ lfetch' = FetchCall(DEPUTES_URL)
    /\ roster_calls' = roster_calls + 1
    /\ mout' = mout \o IfDebug(Line("[DEBUG]", "Collecting deputies for region: r", 0,
                                    TOP_REGIONS[region_idx]))
    /\ UNCHANGED <<config, pc, region_idx, listed, deputes_data, dispatch, output>>

\* l.67-75 for the roster page
ListingGet ==
    /\ pc = "listing"
    /\ lfetch.pc = "get"
    /\ \E ok \in net :
           lfetch' = GetStep(lfetch, ok, Served(lfetch.url))
    /\ UNCHANGED <<config, pc, region_idx, listed, deputes_data, roster_calls, mout,
                   dispatch, output>>

\* l.75
ListingSleep ==
    /\ pc = "listing"
    /\ lfetch.pc = "sleep"
    /\ lfetch' = SleepStep(lfetch)
    /\ UNCHANGED <<config, pc, region_idx, listed, deputes_data, roster_calls, mout,
                   dispatch, output>>

\* l.313-320 and l.338-339: what scrape_deputes prints between the two phases
PhasePrints(data) ==
    IfDebug(Line("[DEBUG]", "Found n deputies total.", Len(data), <<>>))
        \o IfDebug(IF multithreading
                   THEN Line("[DEBUG]", "Using multithreading with n workers.",
                             max_threads, <<>>)
                   ELSE Line("[DEBUG]", "Running sequentially.", 0, <<>>))

\* l.105-148 and l.310-311; after the last region, l.313-320 or l.338-339
ListingReturn ==
    /\ pc = "listing"
    /\ lfetch.pc = "ret"
    /\ LET region == TOP_REGIONS[region_idx]
           walk == get_deputes_from_region(region, lfetch.resp)
           data == deputes_data \o Items(walk.map, region)
       IN  /\ listed' = Append(listed, [region |-> region, fetched |-> lfetch.resp # Nothing,
                                        map |-> walk.map, hits |-> walk.hits])
           /\ deputes_data' = data
           /\ mout' = mout \o walk.out
                         \o (IF region_idx < Len(TOP_REGIONS) THEN <<>> ELSE PhasePrints(data))
           /\ st' = [i \in 1..Len(data) |-> "new"]
           /\ fetch' = [i \in 1..Len(data) |-> FetchIdle]
           /\ ret' = [i \in 1..Len(data) |-> Nothing]
           /\ dout' = [i \in 1..Len(data) |-> <<>>]
    /\ region_idx' = region_idx + 1
    /\ lfetch' = FetchIdle
    /\ pc' = IF region_idx < Len(TOP_REGIONS) THEN "listing"
             ELSE IF multithreading THEN "submit" ELSE "seq"
    /\ UNCHANGED <<config, roster_calls, next, started, order, results, output>>

-----------------------------------------------------------------------------
(* A detail page: its elements in document order.  An element is           *)
(* [name, href, class, text, kids]: class is the list of class tokens,     *)
(* href is None without the attribute, kids are the <span> descendants     *)
(* [name, class, text] of a <div>.                                         *)

Anchor(href, class, text) ==
    [name |-> "a", href |-> href, class |-> class, text |-> text, kids |-> <<>>]
DivEl(class, kids) ==
    [name |-> "div", href |-> None, class |-> class, text |-> <<>>, kids |-> kids]
Span(class, text) == [name |-> "span", class |-> class, text |-> text]

MAILTO == <<"mailto:">>

\* find(..., class_="t1 t2 ..."): one class token is the whole string, or the
\* class attribute's tokens joined by spaces are; wanted = the string's tokens
ClassMatches(class, wanted) ==
    \/ \E k \in 1..Len(class) : <<class[k]>> = wanted
    \/ class = wanted

\* The first element of els that matches, 0 for None
First(S) == IF S = {} THEN 0 ELSE Min(S)

\* l.201: soup.find("a", href=re.compile(r"^mailto:"))
FindMail(soup) ==
    First({k \in 1..Len(soup) :
              soup[k].name = "a" /\ soup[k].href # None /\ StartsWith(soup[k].href, MAILTO)})
\* l.207: soup.find("a", class_="h4 _colored link")
FindGroup(soup) ==
    First({k \in 1..Len(soup) :
              soup[k].name = "a" /\ ClassMatches(soup[k].class, <<"h4", "_colored", "link">>)})
\* l.211: soup.find("div", class_="_mb-small _centered-text")
FindCircDiv(soup) ==
    First({k \in 1..Len(soup) :
              soup[k].name = "div"
                  /\ ClassMatches(soup[k].class, <<"_mb-small", "_centered-text">>)})
\* l.214: circ_div.find("span", class_="_big")
FindBigSpan(kids) ==
    First({k \in 1..Len(kids) :
              kids[k].name = "span" /\ ClassMatches(kids[k].class, <<"_big">>)})

-----------------------------------------------------------------------------
(* get_depute_info, l.151-224 *)

\* l.170: re.search(r"/deputes/fiche/OMC_PA(\d+)", url): group(1), or Nothing
RECURSIVE DigitRun(_, _)
DigitRun(s, p) ==
    IF p <= Len(s) /\ s[p] \in Digits THEN <<s[p]>> \o DigitRun(s, p + 1) ELSE <<>>
MatchIdAnyTail(url) ==
    LET lit == FICHE \o <<"OMC_PA">>
        at == {p \in 1..Len(url) : PrefixAt(url, p, lit)}
    IN  IF at = {} THEN Nothing
        ELSE Some(SubSeq(url, Min(at) + Len(lit), Len(url)))
match_id(url) ==
    LET lit == FICHE \o <<"OMC_PA">>
        at == {p \in 1..Len(url) :
                  PrefixAt(url, p, lit) /\ DigitRun(url, p + Len(lit)) # <<>>}
    IN  IF at = {} THEN Nothing
        ELSE Some(DigitRun(url, Min(at) + Len(lit)))

\* l.181-182
dyn_url(digits) == BASE_URL \o <<"/dyn/deputes/", "PA">> \o digits

\* l.174-180 and l.190-196
NullRecordNoRegion(name, region) ==
    [nom |-> name, region |-> None, email |-> None, groupe |-> None,
     circonscription |-> None]
NullRecord(name, region) ==
    [nom |-> name, region |-> region, email |-> None, groupe |-> None,
     circonscription |-> None]

\* l.198-224
ParseRecordChained(name, region, soup) ==
    LET a_mail == FindMail(soup)
        group_tag == FindGroup(soup)
        circ_div == FindCircDiv(soup)
        big_span == IF circ_div = 0 THEN 0 ELSE FindBigSpan(soup[circ_div].kids)
    IN  IF a_mail = 0 THEN NullRecord(name, region)
        ELSE [nom |-> name,
              region |-> region,
              email |-> Remove(soup[a_mail].href, MAILTO),
              groupe |-> IF group_tag # 0 THEN Strip(soup[group_tag].text) ELSE None,
              circonscription |->
                  IF big_span # 0 THEN Strip(soup[circ_div].kids[big_span].text) ELSE None]
ParseRecord(name, region, soup) ==
    LET a_mail == FindMail(soup)
        group_tag == FindGroup(soup)
        circ_div == FindCircDiv(soup)
        big_span == IF circ_div = 0 THEN 0 ELSE FindBigSpan(soup[circ_div].kids)
    IN  [nom |-> name,
         region |-> region,
         email |-> IF a_mail # 0 THEN Remove(soup[a_mail].href, MAILTO) ELSE None,
         groupe |-> IF group_tag # 0 THEN Strip(soup[group_tag].text) ELSE None,
         circonscription |->
             IF big_span # 0 THEN Strip(soup[circ_div].kids[big_span].text) ELSE None]

\* l.187-224: from the return resp of get_with_retries to the returned record
RecordOf(d, resp) ==
    IF resp = Nothing THEN NullRecord(d.name, d.region)
    ELSE ParseRecord(d.name, d.region, resp[1])

\* l.188-189 and l.203-204: what get_depute_info prints on that way
RecordPrints(d, url, resp) ==
    IF resp = Nothing
    THEN IfDebug(Line("[ERROR]", "Could not fetch url after retries.", 0, url))
    ELSE LET email == ParseRecord(d.name, d.region, resp[1]).email
         IN  IfDebug(Line("[DEBUG]", "Email for name => email", 0,
                          d.name \o <<" ", "=", ">", " ">> \o email))

\* Reference i's call moves on with its fetch in state f: it waits in the GET
\* or the sleep, or, the fetch over, it returns its record
Proceed(i, f) ==
    /\ fetch' = [fetch EXCEPT ![i] = f]
    /\ IF f.pc = "ret"
       THEN /\ ret' = [ret EXCEPT ![i] = Some(RecordOf(deputes_data[i], f.resp))]
            /\ dout' = [dout EXCEPT ![i] = @ \o RecordPrints(deputes_data[i], f.url, f.resp)]
            /\ st' = [st EXCEPT ![i] = "done"]
       ELSE /\ st' = [st EXCEPT ![i] = "fetching"]
            /\ UNCHANGED <<ret, dout>>

\* l.169-186: a thread enters get_depute_info for reference i and runs to its
\* first GET, or to the return of l.174 without an identifier
Begin(i) ==
    LET d == deputes_data[i]
        m == match_id(d.url)
    IN  IF m = Nothing
        THEN /\ ret' = [ret EXCEPT ![i] = Some(NullRecord(d.name, d.region))]
             /\ dout' = [dout EXCEPT ![i] =
                             @ \o IfDebug(Line("[WARNING]", "Can't extract OMC_PA ID from url",
                                               0, d.url))]
             /\ st' = [st EXCEPT ![i] = "done"]
             /\ UNCHANGED fetch
        ELSE Proceed(i, FetchCall(dyn_url(m[1])))

\* l.67-75 for the detail page, and l.187-224 after the last GET
TaskGet(i) ==
    /\ st[i] = "fetching"
    /\ fetch[i].pc = "get"
    /\ \E ok \in net : Proceed(i, GetStep(fetch[i], ok, Served(fetch[i].url)))
    /\ UNCHANGED <<config, pc, listing, next, started, order, results, output>>

\* l.75
TaskSleep(i) ==
    /\ st[i] = "fetching"
    /\ fetch[i].pc = "sleep"
    /\ Proceed(i, SleepStep(fetch[i]))
    /\ UNCHANGED <<config, pc, listing, next, started, order, results, output>>

-----------------------------------------------------------------------------
(* The dispatcher, l.316-350 *)

Refs == 1..Len(deputes_data)
Running == {i \in Refs : st[i] = "fetching"}

\* l.321: ThreadPoolExecutor(max_workers=max_threads): a worker thread is free
WorkerFreeAlways == TRUE
WorkerFreeButOne == Cardinality(Running) < max_threads - 1
WorkerFree == Cardinality(Running) < max_threads

\* l.322-334: executor.submit of the next reference; after the last, l.335
Submit ==
    /\ pc = "submit"
    /\ IF next <= Len(deputes_data)
       THEN /\ st' = [st EXCEPT ![next] = "queued"]
            /\ next' = next + 1
            /\ pc' = pc
       ELSE /\ pc' = "collect"
            /\ UNCHANGED <<st, next>>
    /\ UNCHANGED <<config, listing, fetch, ret, dout, started, order, results, output>>

\* l.321-332: a free worker thread takes the oldest queued call
WorkerStart(i) ==
    /\ pc \in {"submit", "collect"}
    /\ st[i] = "queued"
    /\ \A j \in 1..(i - 1) : st[j] # "queued"
    /\ WorkerFree
    /\ Begin(i)
    /\ started' = Append(started, i)
    /\ UNCHANGED <<config, pc, listing, next, order, results, output>>

\* l.335-336: as_completed yields a finished future; results.append(future.result())
AppendResultKeepsFuture(i) ==
    /\ results' = Append(results, ret[i][1])
    /\ order' = Append(order, i)
    /\ st' = st
AppendResultInFront(i) ==
    /\ results' = <<ret[i][1]>> \o results
    /\ order' = <<i>> \o order
    /\ st' = [st EXCEPT ![i] = "collected"]
AppendResultMergedByName(i) ==
    /\ results' = SelectSeq(results, LAMBDA r : r.nom # ret[i][1].nom) \o <<ret[i][1]>>
    /\ order' = Append(order, i)
    /\ st' = [st EXCEPT ![i] = "collected"]
AppendResult(i) ==
    /\ results' = Append(results, ret[i][1])
    /\ order' = Append(order, i)
    /\ st' = [st EXCEPT ![i] = "collected"]

Collect(i) ==
    /\ pc = "collect"
    /\ st[i] = "done"
    /\ AppendResult(i)
    /\ UNCHANGED <<config, pc, listing, next, fetch, ret, dout, started, output>>

\* l.335: every future was yielded; the with block ends
PoolExitOnceRun ==
    /\ pc = "collect"
    /\ \A i \in Refs : st[i] \in {"done", "collected"}
    /\ pc' = "format"
    /\ UNCHANGED <<config, listing, dispatch, output>>
PoolExit ==
    /\ pc = "collect"
    /\ \A i \in Refs : st[i] = "collected"
    /\ pc' = "format"
    /\ UNCHANGED <<config, listing, dispatch, output>>

\* l.340-341: the sequential loop calls get_depute_info
SeqCall ==
    /\ pc = "seq"
    /\ next <= Len(deputes_data)
    /\ st[next] = "new"
    /\ Begin(next)
    /\ started' = Append(started, next)
    /\ UNCHANGED <<config, pc, listing, next, order, results, output>>

\* l.350
SeqAppend ==
    /\ pc = "seq"
    /\ next <= Len(deputes_data)
    /\ st[next] = "done"
    /\ AppendResult(next)
    /\ next' = next + 1
    /\ UNCHANGED <<config, pc, listing, fetch, ret, dout, started, output>>

\* l.340: the loop ends
SeqEnd ==
    /\ pc = "seq"
    /\ next > Len(deputes_data)
    /\ pc' = "format"
    /\ UNCHANGED <<config, listing, dispatch, output>>

-----------------------------------------------------------------------------
(* The formatter: l.352-372 of scrape_deputes and build_ascii_table *)

SeparatorWidth == 40

LowerCase == <<"a", "b", "c", "d", "e", "f", "g", "h", "i", "j", "k", "l", "m",
               "n", "o", "p", "q", "r", "s", "t", "u", "v", "w", "x", "y", "z">>
UpperCase == <<"A", "B", "C", "D", "E", "F", "G", "H", "I", "J", "K", "L", "M",
               "N", "O", "P", "Q", "R", "S", "T", "U", "V", "W", "X", "Y", "Z">>
ToUpper(c) ==
    IF \E k \in 1..26 : LowerCase[k] = c
    THEN UpperCase[CHOOSE k \in 1..26 : LowerCase[k] = c] ELSE c
ToLower(c) ==
    IF \E k \in 1..26 : UpperCase[k] = c
    THEN LowerCase[CHOOSE k \in 1..26 : UpperCase[k] = c] ELSE c

\* str.capitalize()
Capitalize(s) ==
    IF s = <<>> THEN <<>>
    ELSE <<ToUpper(s[1])>> \o [k \in 1..(Len(s) - 1) |-> ToLower(s[k + 1])]

\* "-" * n
Dashes(n) == [k \in 1..n |-> "-"]

\* str.ljust(w)
RJust(s, w) == [k \in 1..(w - Len(s)) |-> " "] \o s
LJust(s, w) == s \o [k \in 1..(w - Len(s)) |-> " "]

\* dep.get(field, "") or ""
FieldValue(dep, field) ==
    LET got == CASE field = <<"n", "o", "m">> -> dep.nom
                 [] field = <<"r", "e", "g", "i", "o", "n">> -> dep.region
                 [] field = <<"e", "m", "a", "i", "l">> -> dep.email
                 [] field = <<"g", "r", "o", "u", "p", "e">> -> dep.groupe
                 [] field = <<"c", "i", "r", "c", "o", "n", "s", "c", "r", "i", "p", "t",
                              "i", "o", "n">> -> dep.circonscription
                 [] OTHER -> <<>>
    IN  IF got = None THEN <<>> ELSE got

\* l.356-362
FieldLine(dep, field, bare) ==
    IF bare THEN FieldValue(dep, field)
    ELSE Capitalize(field) \o <<":", " ">> \o FieldValue(dep, field)

\* l.355-363: the lines of one record
RecordLinesDashFirst(dep, flds, bare) ==
    <<Dashes(SeparatorWidth)>> \o [k \in 1..Len(flds) |-> FieldLine(dep, flds[k], bare)]
RecordLines(dep, flds, bare) ==
    [k \in 1..Len(flds) |-> FieldLine(dep, flds[k], bare)] \o <<Dashes(SeparatorWidth)>>

\* l.353-363
RECURSIVE RenderLines(_, _, _)
RenderLines(recs, flds, bare) ==
    IF recs = <<>> THEN <<>>
    ELSE RecordLines(Head(recs), flds, bare) \o RenderLines(Tail(recs), flds, bare)

\* l.227-266
build_ascii_table(recs, flds) ==
    LET header == [c \in 1..Len(flds) |-> Capitalize(flds[c])]
        rows == <<header>> \o
                [r \in 1..Len(recs) |-> [c \in 1..Len(flds) |-> FieldValue(recs[r], flds[c])]]
        col_widths == [c \in 1..Len(flds) |->
                          Max({Len(rows[r][c]) : r \in 1..Len(rows)})]
        line(r) == Join(<<" ", "|", " ">>,
                        [c \in 1..Len(flds) |-> LJust(rows[r][c], col_widths[c])])
        sep == Join(<<"-", "+", "-">>, [c \in 1..Len(flds) |-> Dashes(col_widths[c])])
        tlines == <<line(1), sep>> \o [r \in 1..Len(recs) |-> line(r + 1)]
    IN  Join(<<"\n">>, tlines)

\* l.352-372
Format ==
    /\ pc = "format"
    /\ LET ls == RenderLines(results, fields, barefields)
           table == IF use_table
                    THEN <<"\n", "\n", "=== TABLEAU RÉCAPITULATIF ===", "\n">>
                             \o build_ascii_table(results, fields) \o <<"\n">>
                    ELSE <<>>
       IN  /\ lines' = ls
           /\ ascii_table' = table
           /\ final_output' = Join(<<"\n">>, ls) \o table
    /\ pc' = "done"
    /\ UNCHANGED <<config, listing, dispatch>>

-----------------------------------------------------------------------------
(* Initial states *)

DefaultFields ==
    << <<"n", "o", "m">>, <<"r", "e", "g", "i", "o", "n">>, <<"e", "m", "a", "i", "l">>,
       <<"g", "r", "o", "u", "p", "e">>,
       <<"c", "i", "r", "c", "o", "n", "s", "c", "r", "i", "p", "t", "i", "o", "n">> >>

InitRun ==
    /\ pc = "listing"
    /\ region_idx = 1
    /\ lfetch = FetchIdle
    /\ listed = <<>>
    /\ deputes_data = <<>>
    /\ roster_calls = 0
    /\ mout = <<>>
    /\ next = 1
    /\ st = <<>>
    /\ fetch = <<>>
    /\ ret = <<>>
    /\ dout = <<>>
    /\ started = <<>>
    /\ order = <<>>
    /\ results = <<>>
    /\ lines = <<>>
    /\ ascii_table = <<>>
    /\ final_output = <<>>

\* Roster pages of a whole run: two regions, each a department heading and a
\* <div> of entity links with distinct names, at most MaxDeputes links in all
GoodHref(d) == FICHE \o <<"OMC_PA", d>>
BadHref == FICHE \o <<"OMC_PA", "x">>
SeqsUpTo(S, n) == UNION {[1..k -> S] : k \in 0..n}
EntityPool == {Li(GoodHref("1"), <<"a">>), Li(BadHref, <<"b">>)}
EntityLists ==
    {l \in SeqsUpTo(EntityPool, Cardinality(EntityPool)) :
        \A j, k \in 1..Len(l) : j # k => l[j] # l[k]}
RunTrees ==
    {<<H2(TOP_REGIONS[1]), H4(<<"departementTitre">>), Div(l1),
       H2(TOP_REGIONS[2]), H4(<<"departementTitre">>), Div(l2)>> :
        <<l1, l2>> \in {p \in EntityLists \X EntityLists :
                           Len(p[1]) + Len(p[2]) <= MaxDeputes}}

\* Detail pages of a whole run
FullPage ==
    <<Anchor(MAILTO \o <<"a", "@", "x">>, <<>>, <<"m">>),
      Anchor(<<"/g">>, <<"h4", "_colored", "link">>, <<"G">>),
      DivEl(<<"_mb-small", "_centered-text">>, <<Span(<<"_big">>, <<"7">>)>>)>>
RunPages == {FullPage, <<>>}
RunUrls == {dyn_url(<<"1">>)}

Init ==
    /\ InitRun
    /\ retries \in 1..MaxRetries
    /\ delay \in {0, 1}
    /\ multithreading \in BOOLEAN
    /\ max_threads \in IF multithreading THEN 1..MaxThreads ELSE {1}
    /\ fields = DefaultFields
    /\ use_table = FALSE
    /\ barefields = FALSE
    /\ separator_suppression = FALSE
    /\ roster \in RunTrees
    /\ site \in [RunUrls -> RunPages]
    /\ net = BOOLEAN
    /\ debug = FALSE

Next ==
    \/ ListingCall
    \/ ListingGet
    \/ ListingSleep
    \/ ListingReturn
    \/ Submit
    \/ \E i \in Refs : WorkerStart(i)
    \/ \E i \in Refs : TaskGet(i)
    \/ \E i \in Refs : TaskSleep(i)
    \/ \E i \in Refs : Collect(i)
    \/ PoolExit
    \/ SeqCall
    \/ SeqAppend
    \/ SeqEnd
    \/ Format

Spec == Init /\ [][Next]_vars

\* Scheduling: the main thread keeps running, and so does a thread that is
\* inside get_depute_info (the main thread itself in sequential mode, a pool
\* worker otherwise); a GET or a sleep under way always ends (l.67 has a
\* timeout, l.75 a duration).  The main thread's steps ListingReturn and
\* Format are named by what they do to region_idx and pc, which no other
\* action does: they are possible exactly when ListingReturn and Format are.
MainSteps ==
    \/ ListingCall
    \/ ListingGet
    \/ ListingSleep
    \/ Submit
    \/ \E i \in Refs : Collect(i)
    \/ PoolExit
    \/ SeqAppend
    \/ SeqEnd
ListingReturnStep ==
    /\ pc = "listing"
    /\ lfetch.pc = "ret"
    /\ region_idx' = region_idx + 1
FormatStep ==
    /\ pc = "format"
    /\ pc' = "done"
CallSteps ==
    \/ \E i \in Refs : WorkerStart(i)
    \/ SeqCall
    \/ \E i \in Refs : TaskGet(i)
    \/ \E i \in Refs : TaskSleep(i)
Fairness ==
    /\ WF_vars(MainSteps)
    /\ WF_region_idx(ListingReturnStep)
    /\ WF_pc(FormatStep)
    /\ WF_vars(CallSteps)

\* The runs whose termination is checked: every mode, max_retries, delay and
\* fetch outcome, on the rosters whose two regions list the first entities
\* of EntityOrder
EntityOrder == <<Li(GoodHref("1"), <<"a">>), Li(BadHref, <<"b">>)>>
LiveTrees ==
    {t \in RunTrees :
        \A k \in {3, 6} : t[k].lis = SubSeq(EntityOrder, 1, Len(t[k].lis))}
InitLive ==
    /\ Init
    /\ roster \in LiveTrees
    /\ \A u \in DOMAIN site : site[u] = FullPage

SpecLive == InitLive /\ [][Next]_vars /\ Fairness

\* Roster trees of the roster walk: every sequence of at most MaxNodes nodes
PaddedRegion2 == <<" ">> \o TOP_REGIONS[2] \o <<"\n">>
NodeKinds ==
    { H2(TOP_REGIONS[1]), H2(PaddedRegion2),
      H4(<<"departementTitre">>), H4(<<>>),
      Div(<<Li(GoodHref("1"), <<"a">>)>>),
      Div(<<Li(GoodHref("3"), <<"a">>), Li(<<"/x">>, <<"c">>)>>),
      Par }
WalkTrees == SeqsUpTo(NodeKinds, MaxNodes)

InitRegion ==
    /\ InitRun
    /\ retries = 1
    /\ delay = 0
    /\ multithreading = FALSE
    /\ max_threads = 1
    /\ fields = DefaultFields
    /\ use_table = FALSE
    /\ barefields = FALSE
    /\ separator_suppression = FALSE
    /\ roster \in WalkTrees
    /\ site = <<>>
    /\ net = {TRUE}
    /\ debug = FALSE

NextRegion == ListingCall \/ ListingGet \/ ListingReturn

SpecRegion == InitRegion /\ [][NextRegion]_vars

\* Detail extraction: one reference, fetched at the first attempt, and every
\* detail page of at most MaxElems elements
EMail1 == <<"a", "@", "x", ".", "f", "r">>
EMail2 == <<"b", "@", "x", ".", "f", "r">>
ElemKinds ==
    { Anchor(MAILTO \o EMail1, <<>>, <<"m">>),
      Anchor(MAILTO, <<>>, <<"m">>),
      Anchor(<<"/p">>, <<>>, <<"p">>),
      Anchor(None, <<"link">>, <<"n">>),
      Anchor(<<"/g">>, <<"h4", "_colored", "link">>, <<" ", "G", " ">>),
      Anchor(<<"/g">>, <<"h4", "link">>, <<"H">>),
      DivEl(<<"_mb-small", "_centered-text">>, <<Span(<<"_big">>, <<"7">>)>>),
      DivEl(<<"_mb-small", "_centered-text">>, <<Span(<<"_small">>, <<"s">>)>>),
      DivEl(<<"_mb-small._centered-text">>, <<Span(<<"_big">>, <<"8">>)>>),
      DivEl(<<"_mb-small">>, <<Span(<<"_big">>, <<"9">>)>>) }
DetailPages == SeqsUpTo(ElemKinds, MaxElems)

InitDetail ==
    /\ InitRun
    /\ retries = 1
    /\ delay = 0
    /\ multithreading = FALSE
    /\ max_threads = 1
    /\ fields = DefaultFields
    /\ use_table = FALSE
    /\ barefields = FALSE
    /\ separator_suppression = FALSE
    /\ roster = <<H2(TOP_REGIONS[1]), H4(<<"departementTitre">>),
                  Div(<<Li(GoodHref("1"), <<"a">>)>>)>>
    /\ site \in [RunUrls -> DetailPages]
    /\ net = {TRUE}
    /\ debug = FALSE

NextDetail ==
    \/ ListingCall
    \/ ListingGet
    \/ ListingReturn
    \/ SeqCall
    \/ \E i \in Refs : TaskGet(i)
    \/ SeqAppend
    \/ SeqEnd
    \/ Format

SpecDetail == InitDetail /\ [][NextDetail]_vars

\* Runs started by main with any option values, valid or not: l.423 and
\* l.430-441 turn --threads into multithreading and max_threads
SmallTree ==
    <<H2(TOP_REGIONS[1]), H4(<<"departementTitre">>),
      Div(<<Li(GoodHref("1"), <<"a">>), Li(BadHref, <<"b">>)>>),
      H2(TOP_REGIONS[2])>>

InitConfig ==
    /\ InitRun
    /\ retries \in 0..MaxRetries
    /\ delay \in {-1, 0, 1}
    /\ \E threads \in 0..MaxThreads :
           /\ multithreading = (threads > 1)
           /\ max_threads = threads
    /\ fields = DefaultFields
    /\ use_table = FALSE
    /\ barefields = FALSE
    /\ separator_suppression = FALSE
    /\ roster = SmallTree
    /\ site \in [RunUrls -> {FullPage}]
    /\ net = BOOLEAN
    /\ debug = FALSE

SpecConfig == InitConfig /\ [][Next]_vars

\* Runs on pages where a region has no heading of its own, verbose or not: a
\* heading whose text only starts with the region's name, a region whose
\* heading comes twice, an empty page
LongerRegion1 == TOP_REGIONS[1] \o <<" ", "2">>
OddTrees ==
    { SmallTree,
      <<H2(LongerRegion1), H4(<<"departementTitre">>), Div(<<Li(GoodHref("1"), <<"a">>)>>),
        H2(TOP_REGIONS[2]), H4(<<"departementTitre">>), Div(<<Li(GoodHref("1"), <<"b">>)>>)>>,
      <<H2(TOP_REGIONS[1]), H4(<<"departementTitre">>), Div(<<Li(GoodHref("1"), <<"a">>)>>),
        H2(TOP_REGIONS[1]), H4(<<"departementTitre">>), Div(<<Li(BadHref, <<"b">>)>>)>>,
      <<>> }

InitTrace ==
    /\ InitRun
    /\ retries \in 1..MaxRetries
    /\ delay \in {0, 1}
    /\ multithreading \in BOOLEAN
    /\ max_threads \in IF multithreading THEN 1..MaxThreads ELSE {1}
    /\ fields = DefaultFields
    /\ use_table = FALSE
    /\ barefields = FALSE
    /\ separator_suppression = FALSE
    /\ roster \in OddTrees
    /\ site \in [RunUrls -> RunPages]
    /\ net = BOOLEAN
    /\ debug \in BOOLEAN

SpecTrace == InitTrace /\ [][Next]_vars

\* Formatting: the records, the field selection and the modes are inputs
FormatRecords ==
    [nom : {<<"D", "u">>}, region : {TOP_REGIONS[1]}, email : {None, EMail1, EMail2},
     groupe : {None, <<"G">>}, circonscription : {None}]
FieldIds == {<<"n", "o", "m">>, <<"e", "m", "a", "i", "l">>, <<"g", "r", "o", "u", "p", "e">>}

InitFormat ==
    /\ pc = "format"
    /\ retries = 1
    /\ delay = 0
    /\ multithreading = FALSE
    /\ max_threads = 1
    /\ fields \in SeqsUpTo(FieldIds, MaxFields)
    /\ use_table \in BOOLEAN
    /\ barefields \in BOOLEAN
    /\ separator_suppression \in BOOLEAN
    /\ roster = <<>>
    /\ site = <<>>
    /\ net = {TRUE}
    /\ debug = FALSE
    /\ region_idx = Len(TOP_REGIONS) + 1
    /\ lfetch = FetchIdle
    /\ listed = <<>>
    /\ deputes_data = <<>>
    /\ roster_calls = 0
    /\ mout = <<>>
    /\ next = 1
    /\ st = <<>>
    /\ fetch = <<>>
    /\ ret = <<>>
    /\ dout = <<>>
    /\ started = <<>>
    /\ order = <<>>
    /\ results \in SeqsUpTo(FormatRecords, MaxRecs)
    /\ lines = <<>>
    /\ ascii_table = <<>>
    /\ final_output = <<>>

NextFormat == Format

SpecFormat == InitFormat /\ [][NextFormat]_vars

-----------------------------------------------------------------------------
(* The roster walk against the layout of the page *)

\* The list items of the page that hold an entity link, as <<node, li>>
IsEntityLink(li) == li.href # None /\ li.href # <<>> /\ li.href[1] = "/deputes/fiche/"
EntityPositions ==
    UNION {{<<k, n>> : n \in {m \in 1..Len(roster[k].lis) : IsEntityLink(roster[k].lis[m])}} :
           k \in 1..Len(roster)}

\* The heading of a region (0 without one) and the node that ends the block of heading i
Heading(region) ==
    LET hs == {i \in 1..Len(roster) :
                  roster[i].name = "h2" /\ Strip(roster[i].text) = region}
    IN  IF hs = {} THEN 0 ELSE Min(hs)
BlockEnd(i) == Min({j \in (i + 1)..Len(roster) : roster[j].name = "h2"} \cup {Len(roster) + 1})
Between(region) ==
    {p \in EntityPositions : Heading(region) < p[1] /\ p[1] < BlockEnd(Heading(region))}

\* Node k follows a department heading of the block of heading i, no other
\* <h4> or <h2> in between
UnderDepartment(i, k) ==
    \E h \in (i + 1)..(k - 1) :
        /\ roster[h].name = "h4"
        /\ roster[h].class = <<"departementTitre">>
        /\ \A m \in (h + 1)..(k - 1) : roster[m].name \notin {"h4", "h2"}

LinkName(p) == Strip(roster[p[1]].lis[p[2]].text)
LinkUrl(p) == BASE_URL \o roster[p[1]].lis[p[2]].href
Before(p, q) == p[1] < q[1] \/ (p[1] = q[1] /\ p[2] < q[2])

\* The calls whose roster fetch succeeded and whose region has a heading
Walked == {c \in 1..Len(listed) : listed[c].fetched /\ Heading(listed[c].region) > 0}

NoSharedPosition ==
    \A c, e \in Walked :
        listed[c].region # listed[e].region => listed[c].hits \cap listed[e].hits = {}

\* C6 as stated: get_deputes_from_region(R) returns every entity link located
\* between the heading of R and the next region heading, and no other; no
\* entity position is attributed to two regions.
C6_AsStated ==
    /\ \A c \in Walked :
          /\ listed[c].hits = Between(listed[c].region)
          /\ DictKeys(listed[c].map) = {LinkName(p) : p \in Between(listed[c].region)}
    /\ NoSharedPosition

\* C6 amended: get_deputes_from_region(R) returns exactly the entity links of
\* the <div> siblings that lie between the heading of R and the next region
\* heading and follow a departementTitre <h4> with no other <h4> in between (a
\* name listed twice keeps the URL of its last link); it returns no entity
\* located after the next region heading, and no entity position is attributed
\* to two regions.
C6_RegionScoping ==
    /\ \A c \in Walked :
          LET i == Heading(listed[c].region)
              mine == {p \in Between(listed[c].region) : UnderDepartment(i, p[1])}
          IN  /\ listed[c].hits = mine
              /\ DictKeys(listed[c].map) = {LinkName(p) : p \in mine}
              /\ \A p \in mine :
                    (\A q \in mine : LinkName(q) = LinkName(p) => ~Before(p, q))
                        => DictGet(listed[c].map, LinkName(p)) = LinkUrl(p)
    /\ NoSharedPosition

\* Both regions were walked on a page where the heading of the first precedes
\* the heading of the second, the first got entities and an entity lies after
\* the second heading
C6_Witness ==
    /\ Len(listed) = 2
    /\ Walked = {1, 2}
    /\ Heading(listed[1].region) < Heading(listed[2].region)
    /\ listed[1].hits # {}
    /\ Between(listed[2].region) # {}

-----------------------------------------------------------------------------
(* The retrying fetcher *)

\* Every call of get_with_retries of the run: the roster fetch under way and
\* the detail fetch of each reference
Calls == {lfetch} \cup {fetch[i] : i \in Refs}
Gets(f) == {k \in 1..Len(f.log) : f.log[k].ev = "GET"}
Sleeps(f) == {k \in 1..Len(f.log) : f.log[k].ev = "SLEEP"}
Succeeded(f) == \E k \in Gets(f) : f.log[k].ok
Returned(f) == f.pc = "ret"

GetEv(n, ok) == [ev |-> "GET", n |-> n, ok |-> ok]
SleepEv(n) == [ev |-> "SLEEP", n |-> n, ok |-> FALSE]
IsPrefix(s, t) == Len(s) <= Len(t) /\ \A k \in 1..Len(s) : s[k] = t[k]

\* k attempts, the last one ok or not, a sleep between two attempts when d > 0
AttemptLog(k, d, lastOk) ==
    IF d > 0
    THEN [j \in 1..(2 * k - 1) |->
             IF j % 2 = 1 THEN GetEv((j + 1) \div 2, lastOk /\ j = 2 * k - 1)
             ELSE SleepEv(j \div 2)]
    ELSE [j \in 1..k |-> GetEv(j, lastOk /\ j = k)]

\* C1: a call of get_with_retries whose every attempt fails makes exactly
\* max_retries GETs, numbered 1..max_retries in order, and then returns None;
\* it sleeps exactly once between two consecutive attempts when delay_between
\* > 0, never after the last attempt, and never when delay_between = 0.
C1_AllAttemptsFail ==
    \A f \in Calls :
        ~Succeeded(f) /\ f.pc # "idle" =>
            /\ IsPrefix(f.log, AttemptLog(retries, delay, FALSE))
            /\ Returned(f) =>
                  /\ f.log = AttemptLog(retries, delay, FALSE)
                  /\ Cardinality(Gets(f)) = retries
                  /\ Cardinality(Sleeps(f)) = (IF delay > 0 THEN retries - 1 ELSE 0)
                  /\ f.resp = Nothing

\* A detail fetch returned after at least two failed attempts with a delay
C1_Witness ==
    \E i \in Refs :
        /\ Returned(fetch[i])
        /\ ~Succeeded(fetch[i])
        /\ retries >= 2
        /\ delay > 0
        /\ Sleeps(fetch[i]) # {}

\* C2: a call of get_with_retries whose attempt k is the first to succeed has
\* made exactly k attempts (k <= max_retries), has returned the response of
\* attempt k, and makes no attempt and no sleep after it.
C2_SuccessAtK ==
    \A f \in Calls :
        Succeeded(f) =>
            LET k == Cardinality(Gets(f))
            IN  /\ k <= retries
                /\ f.log = AttemptLog(k, delay, TRUE)
                /\ Returned(f)
                /\ f.resp = Some(Served(f.url))

\* A detail fetch succeeded at its second attempt, after a sleep, and the run
\* went on to its end
C2_Witness ==
    /\ pc = "done"
    /\ \E i \in Refs :
          /\ Succeeded(fetch[i])
          /\ Cardinality(Gets(fetch[i])) = 2
          /\ Sleeps(fetch[i]) # {}

-----------------------------------------------------------------------------
(* The dispatcher *)

Finished(i) == st[i] \in {"done", "collected"}
Dispatched == pc \in {"format", "done"}
NoRepeat(s) == \A j, k \in 1..Len(s) : j # k => s[j] # s[k]
Range(s) == {s[k] : k \in 1..Len(s)}

\* The reference's detailRef holds the identifier OMC_PA<digits>
HasIdentifier(url) ==
    \E p \in 1..(Len(url) - 2) :
        url[p] = "/deputes/fiche/" /\ url[p + 1] = "OMC_PA" /\ url[p + 2] \in Digits
NullsFor(d, r) ==
    /\ r.nom = d.name
    /\ r.region = d.region
    /\ r.email = None
    /\ r.groupe = None
    /\ r.circonscription = None

\* C3: the dispatcher produces exactly one record per input reference, in
\* sequential and in concurrent mode, whatever each reference's outcome: no
\* reference is started or collected twice, and once the dispatch is over
\* len(results) = len(deputes_data) and the records are those of the references.
C3_OneRecordPerReference ==
    /\ NoRepeat(started)
    /\ NoRepeat(order)
    /\ Len(results) = Len(order)
    /\ Len(results) <= Len(deputes_data)
    /\ \A k \in 1..Len(order) :
          /\ order[k] \in Refs
          /\ results[k] = ret[order[k]][1]
          /\ results[k].nom = deputes_data[order[k]].name
          /\ results[k].region = deputes_data[order[k]].region
    /\ Dispatched =>
          /\ Len(results) = Len(deputes_data)
          /\ Range(order) = Refs
          /\ Range(started) = Refs

\* The concurrent dispatch of three references is over: one without
\* identifier, one whose fetch was exhausted, one fetched
C3_Witness ==
    /\ multithreading
    /\ Dispatched
    /\ Len(results) = 3
    /\ \E i, j, k \in Refs :
          /\ ~HasIdentifier(deputes_data[i].url)
          /\ Returned(fetch[j]) /\ ~Succeeded(fetch[j])
          /\ Succeeded(fetch[k])

\* C4: in concurrent mode at most max_threads calls of get_depute_info have
\* started and not finished, hence at most max_threads detail GETs are in flight.
InFlight == {i \in Refs : st[i] = "fetching" /\ fetch[i].pc = "get"}
C4_BoundedWorkers ==
    multithreading =>
        /\ Cardinality(Running) <= max_threads
        /\ Cardinality(InFlight) <= max_threads

\* Two workers both run a call while a third call waits in the queue
C4_Witness ==
    /\ multithreading
    /\ max_threads = 2
    /\ Cardinality(Running) = 2
    /\ \E i \in Refs : st[i] = "queued"

\* C5: in sequential mode get_depute_info is called once per reference in input
\* order, each call finishing before the next starts, and the i-th record of
\* results is the record of the i-th reference.
C5_SequentialOrder ==
    ~multithreading =>
        /\ started = [k \in 1..Len(started) |-> k]
        /\ order = [k \in 1..Len(order) |-> k]
        /\ Cardinality(Running) <= 1
        /\ \A i \in Range(started) : \A j \in 1..(i - 1) : st[j] = "collected"
        /\ \A k \in 1..Len(results) :
              /\ results[k] = ret[k][1]
              /\ results[k].nom = deputes_data[k].name
              /\ results[k].region = deputes_data[k].region
        /\ Dispatched => Len(started) = Len(deputes_data) /\ Len(results) = Len(deputes_data)

\* The sequential dispatch of three references is over
C5_Witness ==
    /\ ~multithreading
    /\ Dispatched
    /\ Len(results) = 3

\* The fetch of reference i made all its attempts and every one failed
Exhausted(i) ==
    /\ Returned(fetch[i])
    /\ ~Succeeded(fetch[i])
    /\ Cardinality(Gets(fetch[i])) = retries

\* What reference j's own data and own fetch give
OwnRecord(j) ==
    LET d == deputes_data[j]
    IN  IF HasIdentifier(d.url) /\ Succeeded(fetch[j])
        THEN ParseRecord(d.name, d.region, Served(fetch[j].url))
        ELSE NullRecord(d.name, d.region)

\* C7: when the detail fetch of a reference exhausts its attempts, its record
\* has the reference's nom and region and null email, groupe and
\* circonscription; every other reference still gets the record of its own
\* fetch, and the dispatch still ends with one record per reference, in
\* sequential and in concurrent mode.
C7_ExhaustedFetchIsLocal ==
    \A i \in Refs :
        Exhausted(i) =>
            /\ st[i] # "fetching"
            /\ Finished(i) => NullsFor(deputes_data[i], ret[i][1])
            /\ \A j \in Refs \ {i} : Finished(j) => ret[j] = Some(OwnRecord(j))
            /\ Dispatched => Len(results) = Len(deputes_data)

\* A concurrent run ended in which one fetch was exhausted and another
\* reference was fetched and parsed
C7_Witness ==
    /\ pc = "done"
    /\ multithreading
    /\ \E i, j \in Refs :
          /\ Exhausted(i)
          /\ Succeeded(fetch[j])
          /\ ret[j][1].email # None

\* C8: when the identifier cannot be extracted from a reference's URL,
\* get_depute_info makes no GET at all and returns a record with the
\* reference's nom and region and null email, groupe and circonscription.
C8_NoIdentifierNoFetch ==
    \A i \in Refs :
        ~HasIdentifier(deputes_data[i].url) =>
            /\ fetch[i] = FetchIdle
            /\ st[i] # "fetching"
            /\ Finished(i) => NullsFor(deputes_data[i], ret[i][1])

\* A reference without identifier got its record
C8_Witness ==
    \E i \in Refs :
        /\ ~HasIdentifier(deputes_data[i].url)
        /\ Finished(i)

-----------------------------------------------------------------------------
(* The detail extractor against the content of the page *)

MailLinks(page) ==
    {k \in 1..Len(page) :
        page[k].name = "a" /\ page[k].href # None /\ page[k].href # <<>>
            /\ page[k].href[1] = "mailto:"}
GroupAnchors(page) ==
    {k \in 1..Len(page) :
        page[k].name = "a" /\ page[k].class = <<"h4", "_colored", "link">>}
\* The district container: the first <div> whose class attribute is the two
\* tokens "_mb-small _centered-text"; its nested span: a <span> of class _big
Containers(page) ==
    {k \in 1..Len(page) :
        page[k].name = "div" /\ page[k].class = <<"_mb-small", "_centered-text">>}
BigSpans(div) ==
    {k \in 1..Len(div.kids) :
        div.kids[k].name = "span" /\ \E c \in 1..Len(div.kids[k].class) :
                                         div.kids[k].class[c] = "_big"}
DistrictPresent(page) ==
    Containers(page) # {} /\ BigSpans(page[Min(Containers(page))]) # {}

\* C9: on a fetched detail page the three optional fields are extracted
\* independently: email is null iff the page has no mail link, groupe is null
\* iff it has no group anchor, circonscription is null iff it has no district
\* container or the container has no nested _big span; nom and region are the
\* reference's.
C9_FieldIndependence ==
    \A i \in Refs :
        Finished(i) /\ Succeeded(fetch[i]) =>
            LET page == Served(fetch[i].url)
                r == ret[i][1]
            IN  /\ r.nom = deputes_data[i].name
                /\ r.region = deputes_data[i].region
                /\ (r.email = None) <=> (MailLinks(page) = {})
                /\ (r.groupe = None) <=> (GroupAnchors(page) = {})
                /\ (r.circonscription = None) <=> ~DistrictPresent(page)

\* A page without mail link whose group and district were still extracted
C9_Witness ==
    \E i \in Refs :
        /\ Finished(i)
        /\ Succeeded(fetch[i])
        /\ MailLinks(Served(fetch[i].url)) = {}
        /\ ret[i][1].email = None
        /\ ret[i][1].groupe = <<"G">>
        /\ ret[i][1].circonscription = <<"7">>

-----------------------------------------------------------------------------
(* The formatter *)

Rendered == pc = "done"
DashLine == [k \in 1..40 |-> "-"]

\* C10: in bare mode with exactly one selected field and separator suppression
\* requested, the line section is exactly one line per record, holding that
\* field's value (empty when null), with no line of 40 dashes and no label.
C10_AsStated ==
    Rendered /\ barefields /\ Len(fields) = 1 /\ separator_suppression =>
        /\ Len(lines) = Len(results)
        /\ \A k \in 1..Len(lines) : lines[k] # DashLine
        /\ \A k \in 1..Len(results) :
              k <= Len(lines) /\ lines[k] = FieldValue(results[k], fields[1])

\* The configuration in which the separator would be suppressed
Suppressing == barefields /\ Len(fields) = 1 /\ separator_suppression
\* The field identifier with its first letter capitalized
Label(field) ==
    IF field = <<>> THEN <<>>
    ELSE <<CASE field[1] = "n" -> "N" [] field[1] = "r" -> "R" [] field[1] = "e" -> "E"
             [] field[1] = "g" -> "G" [] field[1] = "c" -> "C" [] OTHER -> field[1]>>
             \o Tail(field)
\* The record's value of a field of the data model, empty when null
ValueOrEmpty(rec, field) ==
    LET v == IF field = <<"n", "o", "m">> THEN rec.nom
             ELSE IF field = <<"e", "m", "a", "i", "l">> THEN rec.email
             ELSE IF field = <<"g", "r", "o", "u", "p", "e">> THEN rec.groupe
             ELSE IF field = <<"r", "e", "g", "i", "o", "n">> THEN rec.region
             ELSE rec.circonscription
    IN  IF v = None THEN <<>> ELSE v

\* C11: in every configuration other than (bare mode, exactly one field,
\* suppression requested), the line section of m records under f selected
\* fields has exactly m*(f+1) lines: for each record in result order, one line
\* per field in selection order, "<Label>: <value-or-empty>" when labeled and
\* "<value-or-empty>" when bare, then exactly one line of 40 dashes.
C11_LineSection ==
    Rendered /\ ~Suppressing =>
        /\ Len(lines) = Len(results) * (Len(fields) + 1)
        /\ \A r \in 1..Len(results) :
              LET base == (r - 1) * (Len(fields) + 1)
              IN  /\ \A c \in 1..Len(fields) :
                        lines[base + c] =
                            IF barefields THEN ValueOrEmpty(results[r], fields[c])
                            ELSE Label(fields[c]) \o <<":", " ">>
                                     \o ValueOrEmpty(results[r], fields[c])
                  /\ lines[base + Len(fields) + 1] = DashLine

\* Two records, the first without email, were rendered labeled under the
\* selection nom, email
C11_Witness ==
    /\ Rendered
    /\ ~barefields
    /\ fields = << <<"n", "o", "m">>, <<"e", "m", "a", "i", "l">> >>
    /\ Len(results) = 2
    /\ results[1].email = None
    /\ Len(lines) = 6

-----------------------------------------------------------------------------
(* The options *)

\* An option value outside its documented range
InvalidOption == retries < 1 \/ delay < 0 \/ max_threads < 1

\* C12: a run whose configuration holds an invalid option value (maxAttempts
\* < 1, delayBetween < 0 or workerCount < 1) stops at startup: no call of
\* get_with_retries is made, no GET is issued, and the run never goes on to the
\* listing results, the dispatch or the formatting.
C12_AsStated ==
    InvalidOption =>
        /\ roster_calls = 0
        /\ \A f \in Calls : Gets(f) = {}
        /\ listed = <<>>
        /\ pc = "listing"

-----------------------------------------------------------------------------
(* The diagnostics *)

\* C13: in a run with debug disabled nothing is printed by get_with_retries,
\* get_deputes_from_region or get_depute_info, whatever fails: a failed
\* attempt, exhausted retries, a roster page that cannot be fetched, a missing
\* region heading or identifier.
C13_AsStated ==
    ~debug =>
        /\ mout = <<>>
        /\ \A f \in Calls : f.out = <<>>
        /\ \A i \in Refs : dout[i] = <<>>

-----------------------------------------------------------------------------
(* The listing phase *)

\* The references of deputes_data that carry the region of call c
RefsOfCall(c) == SelectSeq(deputes_data, LAMBDA d : d.region = listed[c].region)

\* C14: get_deputes_from_region returns the empty mapping when the roster fetch
\* exhausts its attempts, and when no region heading's text equals the region
\* (equality, not prefix; the first such heading in document order counts); in
\* both cases the run goes on: every region is processed, and dispatch and
\* formatting run on exactly the references the regions gave.
C14_EmptyNotFatal ==
    /\ \A c \in 1..Len(listed) :
          /\ listed[c].region = TOP_REGIONS[c]
          /\ ~listed[c].fetched \/ Heading(listed[c].region) = 0 => listed[c].map = <<>>
          /\ listed[c].hits \subseteq Between(listed[c].region)
          /\ Len(RefsOfCall(c)) = Len(listed[c].map)
          /\ \A k \in 1..Len(listed[c].map) :
                /\ RefsOfCall(c)[k].name = listed[c].map[k].name
                /\ RefsOfCall(c)[k].url = listed[c].map[k].url
    /\ \A i \in Refs : \E c \in 1..Len(listed) : deputes_data[i].region = listed[c].region
    /\ pc # "listing" => Len(listed) = Len(TOP_REGIONS)
    /\ Dispatched => Len(results) = Len(deputes_data)
    /\ Rendered => Len(lines) = Len(deputes_data) * (Len(fields) + 1)

\* A run ended on a page where a heading's text only starts with the first
\* region's name: the first region gave nothing, the second region's
\* reference was dispatched and rendered
C14_Witness ==
    /\ Rendered
    /\ listed[1].fetched
    /\ Heading(listed[1].region) = 0
    /\ \E k \in 1..Len(roster) :
          roster[k].name = "h2" /\ roster[k].text # <<>> /\ roster[k].text[1] = listed[1].region[1]
    /\ listed[1].map = <<>>
    /\ listed[2].map # <<>>
    /\ Len(results) = 1
    /\ lines # <<>>

\* The calls of get_with_retries for the roster page that have not returned
RosterCallsUnderWay == roster_calls - Len(listed)

\* C15 as stated: in one run the roster page is retrieved through exactly one
\* retry sequence, however many regions are processed, and at most one listing
\* request is in flight at any time.
C15_AsStated ==
    /\ roster_calls <= 1
    /\ pc # "listing" => roster_calls = 1
    /\ RosterCallsUnderWay \in {0, 1}

\* C15 amended: each call of get_deputes_from_region retrieves the roster page
\* through exactly one retry sequence of at most max_retries GETs, so a run
\* makes one retry sequence per configured region; the sequences are
\* sequential: each begins after the previous call returned, and at most one
\* listing request is in flight at any time.
C15_OneSequencePerRegion ==
    /\ RosterCallsUnderWay = (IF lfetch.pc = "idle" THEN 0 ELSE 1)
    /\ roster_calls = (IF lfetch.pc = "idle" THEN region_idx - 1 ELSE region_idx)
    /\ roster_calls <= Len(TOP_REGIONS)
    /\ pc # "listing" => roster_calls = Len(TOP_REGIONS) /\ lfetch.pc = "idle"
    /\ lfetch.pc # "idle" =>
          /\ lfetch.url = DEPUTES_URL
          /\ Cardinality(Gets(lfetch)) <= retries
          /\ Len(listed) = region_idx - 1

\* The retry sequence of the second region is at its second attempt, after
\* the first region's sequence fetched the page
C15_Witness ==
    /\ roster_calls = 2
    /\ Len(listed) = 1
    /\ listed[1].fetched
    /\ lfetch.pc = "get"
    /\ lfetch.attempt = 2

-----------------------------------------------------------------------------
(* The district container *)

\* The <div>s that carry the two classes under either rendering: a two-token
\* class attribute, or the dotted single token
EitherContainers(page) ==
    {k \in 1..Len(page) :
        /\ page[k].name = "div"
        /\ \/ page[k].class = <<"_mb-small", "_centered-text">>
           \/ page[k].class = <<"_mb-small._centered-text">>}

\* C16: on a fetched detail page with one district container, under either
\* class rendering, that holds a _big span, circonscription is the text of
\* that span.
C16_AsStated ==
    \A i \in Refs :
        Finished(i) /\ Succeeded(fetch[i]) =>
            LET page == Served(fetch[i].url)
                cs == EitherContainers(page)
            IN  Cardinality(cs) = 1 /\ BigSpans(page[Min(cs)]) # {} =>
                    LET div == page[Min(cs)]
                    IN  ret[i][1].circonscription = Strip(div.kids[Min(BigSpans(div))].text)

-----------------------------------------------------------------------------
(* The table *)

\* What build_ascii_table returned: ascii_table without the banner of l.368
\* and the newline of l.370
TableText == SubSeq(ascii_table, 5, Len(ascii_table) - 1)

RECURSIVE SplitLines(_)
SplitLines(s) ==
    LET nl == {k \in 1..Len(s) : s[k] = "\n"}
    IN  IF nl = {} THEN <<s>>
        ELSE <<SubSeq(s, 1, Min(nl) - 1)>> \o SplitLines(SubSeq(s, Min(nl) + 1, Len(s)))

\* Column c: its width, and the position before its first character
ColWidth(c) ==
    Max({Len(Label(fields[c]))}
            \cup {Len(ValueOrEmpty(results[r], fields[c])) : r \in 1..Len(results)})
RECURSIVE ColStart(_)
ColStart(c) == IF c = 1 THEN 0 ELSE ColStart(c - 1) + ColWidth(c - 1) + 3
RowWidth == IF fields = <<>> THEN 0 ELSE ColStart(Len(fields)) + ColWidth(Len(fields))

\* Row holds text in column c, padded on the right with pad, and gap before
\* every column but the first
CellIs(row, c, text, pad) ==
    \A p \in 1..ColWidth(c) :
        row[ColStart(c) + p] = IF p <= Len(text) THEN text[p] ELSE pad
GapIs(row, c, gap) ==
    c > 1 => SubSeq(row, ColStart(c) - 2, ColStart(c)) = gap

\* C17: build_ascii_table over m records and f fields returns exactly m+2
\* lines: the capitalized labels, one separator row, then one row per record
\* in result order with null as the empty string; a column's width is the
\* maximum length over its header and values, every cell is padded with
\* spaces on the right to that width, cells are joined with " | ", and the
\* separator row, dash runs of the column widths joined with "-+-", is the
\* second line.
C17_Table ==
    Rendered /\ use_table =>
        LET t == SplitLines(TableText)
        IN  /\ Len(t) = Len(results) + 2
            /\ \A r \in 1..Len(t) : Len(t[r]) = RowWidth
            /\ \A c \in 1..Len(fields) :
                  /\ CellIs(t[1], c, Label(fields[c]), " ")
                  /\ GapIs(t[1], c, <<" ", "|", " ">>)
                  /\ CellIs(t[2], c, <<>>, "-")
                  /\ GapIs(t[2], c, <<"-", "+", "-">>)
                  /\ \A r \in 1..Len(results) :
                        /\ CellIs(t[r + 2], c, ValueOrEmpty(results[r], fields[c]), " ")
                        /\ GapIs(t[r + 2], c, <<" ", "|", " ">>)

\* A table of two records under nom, email: the header is the longest cell of
\* the first column, a value the longest of the second, and one email is null
C17_Witness ==
    /\ Rendered
    /\ use_table
    /\ fields = << <<"n", "o", "m">>, <<"e", "m", "a", "i", "l">> >>
    /\ Len(results) = 2
    /\ results[1].email = None
    /\ results[2].email # None
    /\ ColWidth(1) = 3
    /\ ColWidth(2) = 6

-----------------------------------------------------------------------------
(* Termination *)

\* Reference i was handed to get_depute_info and its record is not yet in results
Pending(i) == i \in Refs /\ st[i] \in {"queued", "fetching", "done"}
Completed(i) == i \in Refs /\ st[i] = "collected" /\ ret[i] # Nothing

\* C18: under fair scheduling, every GET and sleep ending, every extraction
\* that was dispatched eventually completes with a record that is appended to
\* results, none stays pending, and the run eventually reaches the formatting
\* step and ends, for every reference list, max_retries and max_threads.
C18_RunsToCompletion ==
    /\ (\E i \in Refs : Pending(i)) ~> (\A i \in Refs : Completed(i))
    /\ <>(pc = "format" /\ Len(results) = Len(deputes_data) /\ \A i \in Refs : Completed(i))
    /\ <>[](pc = "done")

\* A concurrent run of three references under one worker and two attempts per
\* fetch ended, one of the fetches exhausted
C18_Witness ==
    /\ pc = "done"
    /\ multithreading
    /\ max_threads = 1
    /\ retries = 2
    /\ Len(results) = 3
    /\ \E i \in Refs : Exhausted(i)

-----------------------------------------------------------------------------
(* Concurrent against sequential dispatch *)

\* The record list of the references and fetch outcomes of this run, in
\* input order
RecordsInInputOrder == [i \in Refs |-> OwnRecord(i)]
Occurrences(s, x) == Cardinality({k \in 1..Len(s) : s[k] = x})
IsPermutationOf(s, t) ==
    /\ Len(s) = Len(t)
    /\ \A x \in Range(s) \cup Range(t) : Occurrences(s, x) = Occurrences(t, x)

\* C19: for given references and per-reference fetch outcomes, sequential mode
\* produces the records in input order and concurrent mode, under every
\* interleaving and every max_threads, a permutation of that list: the same
\* records the same number of times, records of the same name not merged.
C19_PermutationOfSequential ==
    Dispatched =>
        /\ ~multithreading => results = RecordsInInputOrder
        /\ multithreading => IsPermutationOf(results, RecordsInInputOrder)

\* A concurrent dispatch ended with the records in another order than the
\* references, two of them bearing the same name
C19_Witness ==
    /\ multithreading
    /\ Dispatched
    /\ results # RecordsInInputOrder
    /\ \E j, k \in 1..Len(results) : j # k /\ results[j].nom = results[k].nom

-----------------------------------------------------------------------------
(* The phases of a run *)

\* A call of get_depute_info was made, or a detail fetch or a result exists
DetailBegun ==
    \/ started # <<>>
    \/ results # <<>>
    \/ \E i \in Refs : st[i] # "new" \/ fetch[i] # FetchIdle \/ ret[i] # Nothing
ListingOver == Len(listed) = Len(TOP_REGIONS) /\ lfetch.pc = "idle" /\ pc # "listing"
RenderingBegun ==
    pc \in {"format", "done"} \/ lines # <<>> \/ ascii_table # <<>> \/ final_output # <<>>

\* C20: the phases of a run are strictly ordered, in sequential and in
\* concurrent mode: no detail fetch is attempted before get_deputes_from_region
\* has returned for every region of TOP_REGIONS, and rendering begins only
\* once every get_depute_info call has returned and its record is in results.
C20_PhasesOrdered ==
    /\ DetailBegun => ListingOver
    /\ RenderingBegun =>
          /\ ListingOver
          /\ \A i \in Refs : st[i] = "collected" /\ fetch[i].pc \in {"idle", "ret"}
          /\ Len(results) = Len(deputes_data)
          /\ Range(order) = Refs

\* A concurrent run of three references rendered its lines
C20_Witness ==
    /\ pc = "done"
    /\ multithreading
    /\ max_threads = 2
    /\ Len(deputes_data) = 3
    /\ Len(lines) = 3 * (Len(fields) + 1)

====
